---- MODULE Spec2Model ----
(***************************************************************************)
(* Model of the DynamoDB-backed row store (package dynamodb, Client).      *)
(*                                                                         *)
(* The table is a set of items; an item is a record whose fields are the   *)
(* attributes it carries, each holding a tagged attribute value ([S |-> v] *)
(* for AttributeValueMemberS, [M |-> m] for AttributeValueMemberM), so an  *)
(* attribute the code never wrote is absent from the record's domain.      *)
(* Every backend call (GetItem, Query, PutItem, UpdateItem, DeleteItem) is *)
(* one atomic step of the calling client; a store operation is the         *)
(* sequence of its backend calls.  Index queries are modelled against a    *)
(* fully propagated index, and the datastore is assumed reachable: the     *)
(* only backend errors modelled are the ones the request itself provokes   *)
(* (a failed condition expression, a rejected parameter).                  *)
(*                                                                         *)
(* Specifications:                                                         *)
(*   Spec           every row operation, called one after another, on      *)
(*                  tables of at most MaxRows rows                         *)
(*   TreeSpec       the writing operations, called one after another,      *)
(*                  parents being "org" rows, rows unbounded               *)
(*   ColumnSpec     the operations that write and read columns, called one *)
(*                  after another, with values of every kind               *)
(*   ConcSpec       one operation per client, backend calls interleaved    *)
(*   LifecycleSpec  NewClient and createTableIfNotExists, with the         *)
(*                  failures of their SDK calls                            *)
(***************************************************************************)
EXTENDS Integers, Sequences, FiniteSets, TLC

\* ------------------------------------------------------------------ bounds
NumClients == 2
MaxRows == 2
MaxConstructions == 3

Clients == 1..NumClients

\* ------------------------------------------------------- input value sets
Types == {"org", "team"}
Suffixes == {"x", "y"}
Labels == {<<"a">>, <<"a", "b">>}

\* slug.Generate: "<prefix>_<random suffix>"; randSeq is drawn from Suffixes
Generate(prefix, suffix) == prefix \o "_" \o suffix

IDs == {Generate(t, s) : t \in Types, s \in Suffixes}

\* the keys (type, id) the store can have issued
Keys == {<<t, Generate(t, s)>> : t \in Types, s \in Suffixes}

\* Go values a caller can put in a columns map (interface{})
GoString(v) == [kind |-> "string", str |-> v]
GoStringList(l) == [kind |-> "[]string", list |-> l]
GoInt(n) == [kind |-> "int", int |-> n]
EmptyColumns == [n \in {} |-> GoString("")]
ColumnInputs == {[n \in {"k"} |-> GoString("v")]}

\* arguments of UpdateColumn and UpdateColumns; the row they address may be
\* missing, a root row, a child row or a row written by an update
ColumnKeys == {<<"team", Generate("team", "x")>>}
ColumnNames == {"k"}
ColumnValues == {GoString("w")}
ColumnUpdates == {[n \in {"k"} |-> GoString("w")]}

\* label filters of ListRows: none, a prefix, a substring that is no prefix
LabelFilters == {<<>>, <<"a">>, <<"b">>}
\* parent filters of ListRows: none, a root row's id, a child row's id
ParentIDFilters == {"", Generate("org", "x"), Generate("team", "x")}
\* (parentType, parentID) of CreateChild: the well-formed keys and one id
\* looked up under the wrong type
ParentRefs == Keys \cup {<<"team", Generate("org", "x")>>}

\* ------------------------------------------------------------- error values
ErrNone == "nil"
ErrCannotDeleteRow == "cannot delete row"
ErrCollisionParentLabel == "a row with that parent and label already exists"
ErrCollisionTypeLabel == "a row with that type and label already exists"
ErrNotFoundRow == "row not found"
ErrTooManyFound == "multiple exist where there must only be one"
\* errors of the datastore itself, propagated unmodified
ErrConditionalCheckFailed == "ConditionalCheckFailedException"
ErrValidation == "ValidationException"
ErrSerialization == "SerializationException"

\* ------------------------------------------------------------ attribute names
storageKeyType == "type"
storageKeyID == "id"
storageAttrParentID == "parent_id"
storageAttrLabel == "label"
storageAttrColumns == "columns"

\* ---------------------------------------------------------------- row model
\* type row struct; absent attributes unmarshal to Go zero values
NoRow ==
  [RowType |-> "", RowID |-> "", RowLabel |-> <<>>, RowParentID |-> "",
   RowColumns |-> EmptyColumns]

\* ifaceToAttributeValue: string -> S, []string -> SS, anything else -> nil
ifaceToAttributeValue(in) ==
  IF in.kind = "string" THEN [S |-> in.str]
  ELSE IF in.kind = "[]string" THEN [SS |-> in.list]
  ELSE [NIL |-> TRUE]

\* columnsToMap
columnsToMap(columns) ==
  [k \in DOMAIN columns |-> ifaceToAttributeValue(columns[k])]

\* Unmarshal that decodes string attributes only
avToIface_StringsOnly(av) ==
  IF "S" \in DOMAIN av THEN GoString(av.S) ELSE [kind |-> "nil"]

\* attributevalue.Unmarshal of one attribute value into interface{}
avToIface(av) ==
  IF "S" \in DOMAIN av THEN GoString(av.S)
  ELSE IF "SS" \in DOMAIN av THEN [kind |-> "[]string", list |-> av.SS]
  ELSE [kind |-> "nil"]

\* itemToRow: attributevalue.UnmarshalMap into the row struct
itemToRow(item) ==
  [RowType |-> item.type.S,
   RowID |-> item.id.S,
   RowLabel |-> item.label.S,
   RowParentID |-> IF storageAttrParentID \in DOMAIN item
                   THEN item.parent_id.S ELSE "",
   RowColumns |-> IF storageAttrColumns \in DOMAIN item
                  THEN [k \in DOMAIN item.columns.M |-> avToIface(item.columns.M[k])]
                  ELSE EmptyColumns]

\* ------------------------------------------------- requests and responses
Range(f) == {f[x] : x \in DOMAIN f}

\* the nil members of a map of attribute values
NilMembers(m) == {k \in DOMAIN m : "NIL" \in DOMAIN m[k]}

\* a string set the datastore rejects: empty, or with a repeated element
InvalidSet(av) ==
  /\ "SS" \in DOMAIN av
  /\ \/ Len(av.SS) = 0
     \/ Cardinality(Range(av.SS)) < Len(av.SS)

\* What becomes of a map of attribute values sent in a write request.  A
\* nil member is no attribute value the request encoding has a form for:
\* the client library leaves the member out, or the request it encodes is
\* malformed and the datastore rejects it.  Which of the two depends on the
\* library, so both are outcomes.  The datastore rejects invalid string sets.
SentMap(m) ==
  LET kept == [k \in DOMAIN m \ NilMembers(m) |-> m[k]]
  IN IF NilMembers(m) # {}
     THEN {[err |-> ErrNone, M |-> kept], [err |-> ErrSerialization, M |-> kept]}
     ELSE IF \E k \in DOMAIN m : InvalidSet(m[k])
     THEN {[err |-> ErrValidation, M |-> kept]}
     ELSE {[err |-> ErrNone, M |-> kept]}

\* the orders in which the elements of a stored string set can come back
Orders(l) == {q \in [DOMAIN l -> Range(l)] : Range(q) = Range(l)}

\* The items the datastore can return for a stored item: a string set has no
\* order, its elements come back in any.
Responses(item) ==
  IF storageAttrColumns \notin DOMAIN item THEN {item}
  ELSE LET m == item.columns.M
           choices == [k \in DOMAIN m |->
                         IF "SS" \in DOMAIN m[k]
                         THEN {[SS |-> q] : q \in Orders(m[k].SS)}
                         ELSE {m[k]}]
       IN {[item EXCEPT !.columns = [M |-> f]] :
             f \in {g \in [DOMAIN m -> UNION Range(choices)] :
                      \A k \in DOMAIN m : g[k] \in choices[k]}}

\* ------------------------------------------------------------- index layout
\* primary key (type HASH, id RANGE)
HasKey(item, rowType, id) == item.type.S = rowType /\ item.id.S = id

GetItem(tbl, rowType, id) == {i \in tbl : HasKey(i, rowType, id)}

\* an item appears in a secondary index only if it carries the index's keys
\* LSI ByTypeAndLabel (type HASH, label RANGE)
ByTypeAndLabel(tbl, rowType, label) ==
  {i \in tbl : /\ storageAttrLabel \in DOMAIN i
               /\ i.type.S = rowType
               /\ i.label.S = label}

\* GSI ByParentAndLabel (parent_id HASH, label RANGE)
ByParentAndLabel(tbl, parentID, label) ==
  {i \in tbl : /\ storageAttrParentID \in DOMAIN i
               /\ storageAttrLabel \in DOMAIN i
               /\ i.parent_id.S = parentID
               /\ i.label.S = label}

\* ByTypeAndParent as it would be if the index were ranged by id
ByTypeAndParent_RangedByID(tbl, rowType, parentID) ==
  {i \in tbl : i.type.S = rowType /\ i.id.S = parentID}

\* LSI ByTypeAndParent (type HASH, parent_id RANGE)
ByTypeAndParent(tbl, rowType, parentID) ==
  {i \in tbl : /\ storageAttrParentID \in DOMAIN i
               /\ i.type.S = rowType
               /\ i.parent_id.S = parentID}

\* ------------------------------------------------------------------- state
VARIABLES
  table,   \* the items of the DynamoDB table
  pc,      \* per client: "idle", the next backend call of its operation, "done"
  op,      \* per client: the operation in progress
  args,    \* per client: the operation's arguments
  local,   \* per client: the operation's local variables
  ret,     \* per client: the (row, error) the operation returned
  pre,     \* per client: the table when the operation was called
  ddb,     \* the datastore: whether the table exists, CreateTable traffic
  newClient \* the store construction (NewClient) in progress or last made

rowVars == <<table, pc, op, args, local, ret, pre>>
lifecycleVars == <<ddb, newClient>>
vars == <<table, pc, op, args, local, ret, pre, ddb, newClient>>

NoArgs ==
  [rowType |-> "", id |-> "", label |-> <<>>, parentType |-> "",
   parentID |-> "", childType |-> "", columns |-> EmptyColumns,
   columnName |-> "", columnValue |-> GoString("")]

NoLocal == [id |-> "", parentID |-> ""]
NoRet == [err |-> ErrNone, row |-> NoRow, rows |-> {}]

\* the datastore once the table exists, and a construction that returned a
\* store handle for it
TableReady == [table |-> "present", createTableCalls |-> 0, tablesCreated |-> 0]
Constructed ==
  [pc |-> "done", n |-> 1, describe |-> ErrNone, createIssued |-> FALSE,
   faulted |-> FALSE, err |-> ErrNone, handle |-> TRUE]

Init ==
  /\ table = {}
  /\ pc = [c \in Clients |-> "idle"]
  /\ op = [c \in Clients |-> ""]
  /\ args = [c \in Clients |-> NoArgs]
  /\ local = [c \in Clients |-> NoLocal]
  /\ ret = [c \in Clients |-> NoRet]
  /\ pre = [c \in Clients |-> {}]
  /\ ddb = TableReady
  /\ newClient = Constructed

\* a client enters an operation on the store handle NewClient returned
Begin(c, name, a, first) ==
  /\ newClient.handle
  /\ pc[c] = "idle"
  /\ op' = [op EXCEPT ![c] = name]
  /\ args' = [args EXCEPT ![c] = a]
  /\ pre' = [pre EXCEPT ![c] = table]
  /\ pc' = [pc EXCEPT ![c] = first]
  /\ UNCHANGED <<table, ret, ddb, newClient>>

\* the operation returns (row, err)
Finish(c, row, err) ==
  /\ ret' = [ret EXCEPT ![c] = [err |-> err, row |-> row, rows |-> {}]]
  /\ pc' = [pc EXCEPT ![c] = "done"]

\* the caller has consumed the result
Return(c) ==
  /\ pc[c] = "done"
  /\ pc' = [pc EXCEPT ![c] = "idle"]
  /\ op' = [op EXCEPT ![c] = ""]
  /\ args' = [args EXCEPT ![c] = NoArgs]
  /\ local' = [local EXCEPT ![c] = NoLocal]
  /\ ret' = [ret EXCEPT ![c] = NoRet]
  /\ pre' = [pre EXCEPT ![c] = {}]
  /\ UNCHANGED <<table, ddb, newClient>>

\* ------------------------------------------------------------ GetRowByID
CallGetRowByID(c, rowType, id) ==
  /\ Begin(c, "GetRowByID", [NoArgs EXCEPT !.rowType = rowType, !.id = id],
        "GetRowByID_GetItem")
  /\ UNCHANGED local

GetRowByID_GetItem(c) ==
  /\ pc[c] = "GetRowByID_GetItem"
  /\ LET output == GetItem(table, args[c].rowType, args[c].id) IN
       IF output = {}
       THEN Finish(c, NoRow, ErrNotFoundRow)
       ELSE \E item \in output : \E out \in Responses(item) :
              Finish(c, itemToRow(out), ErrNone)
  /\ UNCHANGED <<table, op, args, local, pre, ddb, newClient>>

\* ---------------------------------------------------------------- GetRow
CallGetRow(c, rowType, label) ==
  /\ Begin(c, "GetRow", [NoArgs EXCEPT !.rowType = rowType, !.label = label],
           "GetRow_Query")
  /\ UNCHANGED local

\* GetRow as it would be if the too-many test were len(output.Items) >= 1
GetRowResult_TooManyAtOne(tbl, rowType, label) ==
  LET items == {i \in tbl : /\ storageAttrLabel \in DOMAIN i
                            /\ i.type.S = rowType
                            /\ i.label.S = label} IN
    IF Cardinality(items) = 0 THEN [err |-> ErrNotFoundRow, row |-> NoRow]
    ELSE [err |-> ErrTooManyFound, row |-> NoRow]

\* the (row, err) GetRow derives from its one query
GetRowResult(tbl, rowType, label) ==
  LET items == ByTypeAndLabel(tbl, rowType, label) IN
    IF Cardinality(items) = 0 THEN [err |-> ErrNotFoundRow, row |-> NoRow]
    ELSE IF Cardinality(items) > 1 THEN [err |-> ErrTooManyFound, row |-> NoRow]
    ELSE [err |-> ErrNone, row |-> itemToRow(CHOOSE i \in items : TRUE)]

GetRow_Query(c) ==
  /\ pc[c] = "GetRow_Query"
  /\ LET r == GetRowResult(table, args[c].rowType, args[c].label) IN
       Finish(c, r.row, r.err)
  /\ UNCHANGED <<table, op, args, local, pre, ddb, newClient>>

\* -------------------------------------------------------------- CreateRow
CallCreateRow(c, rowType, label) ==
  /\ Begin(c, "CreateRow", [NoArgs EXCEPT !.rowType = rowType, !.label = label],
           "CreateRow_Query")
  /\ UNCHANGED local

\* CreateRow's query as it would be without the len(output.Items) > 0 test
CreateRow_Query_NoCollisionTest(c) ==
  /\ pc[c] = "CreateRow_Query"
  /\ pc' = [pc EXCEPT ![c] = "CreateRow_PutItem"]
  /\ UNCHANGED <<table, op, args, local, ret, pre, ddb, newClient>>

\* make sure type+name doesn't collide
CreateRow_Query(c) ==
  /\ pc[c] = "CreateRow_Query"
  /\ IF ByTypeAndLabel(table, args[c].rowType, args[c].label) # {}
     THEN Finish(c, NoRow, ErrCollisionTypeLabel)
     ELSE /\ pc' = [pc EXCEPT ![c] = "CreateRow_PutItem"]
          /\ UNCHANGED ret
  /\ UNCHANGED <<table, op, args, local, pre, ddb, newClient>>

\* CreateRow's write as it would be if the label test and the write were one
\* atomic step: the label is tested again on the table being written
CreateRow_PutItem_LabelTested(c) ==
  /\ pc[c] = "CreateRow_PutItem"
  /\ \E suffix \in Suffixes :
       LET id == Generate(args[c].rowType, suffix)
           item == [type |-> [S |-> args[c].rowType],
                    id |-> [S |-> id],
                    label |-> [S |-> args[c].label]]
       IN /\ local' = [local EXCEPT ![c].id = id]
          /\ IF ByTypeAndLabel(table, args[c].rowType, args[c].label) # {}
             THEN /\ Finish(c, NoRow, ErrCollisionTypeLabel)
                  /\ UNCHANGED table
             ELSE IF GetItem(table, args[c].rowType, id) # {}
             THEN /\ Finish(c, NoRow, ErrConditionalCheckFailed)
                  /\ UNCHANGED table
             ELSE /\ table' = table \cup {item}
                  /\ Finish(c, [NoRow EXCEPT !.RowType = args[c].rowType,
                                             !.RowID = id,
                                             !.RowLabel = args[c].label],
                            ErrNone)
  /\ UNCHANGED <<op, args, pre, ddb, newClient>>

\* create item as long as type+ID doesn't collide
CreateRow_PutItem(c) ==
  /\ pc[c] = "CreateRow_PutItem"
  /\ \E suffix \in Suffixes :
       LET id == Generate(args[c].rowType, suffix)
           item == [type |-> [S |-> args[c].rowType],
                    id |-> [S |-> id],
                    label |-> [S |-> args[c].label]]
       IN /\ local' = [local EXCEPT ![c].id = id]
          /\ IF GetItem(table, args[c].rowType, id) # {}
             THEN /\ Finish(c, NoRow, ErrConditionalCheckFailed)
                  /\ UNCHANGED table
             ELSE /\ table' = table \cup {item}
                  /\ Finish(c, [NoRow EXCEPT !.RowType = args[c].rowType,
                                             !.RowID = id,
                                             !.RowLabel = args[c].label],
                            ErrNone)
  /\ UNCHANGED <<op, args, pre, ddb, newClient>>

\* ------------------------------------------------------------ CreateChild
CallCreateChild(c, rowType, label, parentType, parentID, columns) ==
  /\ Begin(c, "CreateChild",
           [NoArgs EXCEPT !.rowType = rowType, !.label = label,
                          !.parentType = parentType, !.parentID = parentID,
                          !.columns = columns],
           "CreateChild_GetItem")
  /\ UNCHANGED local

\* CreateChild's parent lookup as it would be if its error were dropped
CreateChild_GetItem_ErrorDropped(c) ==
  /\ pc[c] = "CreateChild_GetItem"
  /\ local' = [local EXCEPT ![c].parentID = args[c].parentID]
  /\ pc' = [pc EXCEPT ![c] = "CreateChild_Query"]
  /\ UNCHANGED <<table, op, args, ret, pre, ddb, newClient>>

\* make sure parent exists
CreateChild_GetItem(c) ==
  /\ pc[c] = "CreateChild_GetItem"
  /\ LET output == GetItem(table, args[c].parentType, args[c].parentID) IN
       IF output = {}
       THEN /\ Finish(c, NoRow, ErrNotFoundRow)
            /\ UNCHANGED local
       ELSE \E parent \in output :
              /\ local' = [local EXCEPT ![c].parentID = itemToRow(parent).RowID]
              /\ pc' = [pc EXCEPT ![c] = "CreateChild_Query"]
              /\ UNCHANGED ret
  /\ UNCHANGED <<table, op, args, pre, ddb, newClient>>

\* CreateChild's uniqueness query as it would be if it also matched on type
CreateChild_Query_SameTypeOnly(c) ==
  /\ pc[c] = "CreateChild_Query"
  /\ IF \E i \in table : /\ storageAttrParentID \in DOMAIN i
                         /\ i.parent_id.S = args[c].parentID
                         /\ i.label.S = args[c].label
                         /\ i.type.S = args[c].rowType
     THEN Finish(c, NoRow, ErrCollisionParentLabel)
     ELSE /\ pc' = [pc EXCEPT ![c] = "CreateChild_PutItem"]
          /\ UNCHANGED ret
  /\ UNCHANGED <<table, op, args, local, pre, ddb, newClient>>

\* make sure label is unique within the parent
CreateChild_Query(c) ==
  /\ pc[c] = "CreateChild_Query"
  /\ IF ByParentAndLabel(table, args[c].parentID, args[c].label) # {}
     THEN Finish(c, NoRow, ErrCollisionParentLabel)
     ELSE /\ pc' = [pc EXCEPT ![c] = "CreateChild_PutItem"]
          /\ UNCHANGED ret
  /\ UNCHANGED <<table, op, args, local, pre, ddb, newClient>>

\* CreateChild's write as it would be without the ConditionExpression: a
\* PutItem replaces whatever is stored under the key
CreateChild_PutItem_Overwrite(c) ==
  /\ pc[c] = "CreateChild_PutItem"
  /\ \E suffix \in Suffixes :
       LET id == Generate(args[c].rowType, suffix)
           item == [type |-> [S |-> args[c].rowType],
                    id |-> [S |-> id],
                    label |-> [S |-> args[c].label],
                    parent_id |-> [S |-> args[c].parentID],
                    columns |-> [M |-> columnsToMap(args[c].columns)]]
       IN /\ local' = [local EXCEPT ![c].id = id]
          /\ table' = (table \ GetItem(table, args[c].rowType, id)) \cup {item}
          /\ Finish(c, [RowType |-> args[c].rowType,
                        RowID |-> id,
                        RowLabel |-> args[c].label,
                        RowParentID |-> local[c].parentID,
                        RowColumns |-> args[c].columns],
                    ErrNone)
  /\ UNCHANGED <<op, args, pre, ddb, newClient>>

\* The id is drawn by slug.Generate(rowType) on entry to CreateChild; nothing
\* reads it before this write, so the draw is made here.
CreateChild_PutItem(c) ==
  /\ pc[c] = "CreateChild_PutItem"
  /\ \E suffix \in Suffixes, sent \in SentMap(columnsToMap(args[c].columns)) :
       LET id == Generate(args[c].rowType, suffix)
           item == [type |-> [S |-> args[c].rowType],
                    id |-> [S |-> id],
                    label |-> [S |-> args[c].label],
                    parent_id |-> [S |-> args[c].parentID],
                    columns |-> [M |-> sent.M]]
       IN /\ local' = [local EXCEPT ![c].id = id]
          /\ IF sent.err # ErrNone
             THEN /\ Finish(c, NoRow, sent.err)
                  /\ UNCHANGED table
             ELSE IF GetItem(table, args[c].rowType, id) # {}
             THEN /\ Finish(c, NoRow, ErrConditionalCheckFailed)
                  /\ UNCHANGED table
             ELSE /\ table' = table \cup {item}
                  /\ Finish(c, [RowType |-> args[c].rowType,
                                RowID |-> id,
                                RowLabel |-> args[c].label,
                                RowParentID |-> local[c].parentID,
                                RowColumns |-> args[c].columns],
                            ErrNone)
  /\ UNCHANGED <<op, args, pre, ddb, newClient>>

\* --------------------------------------------------------------- GetChild
\* GetChild as it would be if it returned the first of the items found
GetChildResults_FirstMatch(tbl, label, parentID) ==
  LET items == ByParentAndLabel(tbl, parentID, label)
  IN IF items = {} THEN {[err |-> ErrNotFoundRow, row |-> NoRow]}
     ELSE {[err |-> ErrNone, row |-> itemToRow(i)] : i \in items}

\* The outcomes of GetChild's query on ByParentAndLabel.  DynamoDB does not
\* accept an empty string as the value of a key attribute: a query whose
\* parent_id is "" is rejected by the service, or (on a lenient backend)
\* matches nothing, since no item is indexed under an absent parent_id.
GetChildResults(tbl, label, parentID) ==
  LET items == ByParentAndLabel(tbl, parentID, label)
      answer ==
        IF Cardinality(items) = 0 THEN [err |-> ErrNotFoundRow, row |-> NoRow]
        ELSE IF Cardinality(items) > 1 THEN [err |-> ErrTooManyFound, row |-> NoRow]
        ELSE [err |-> ErrNone, row |-> itemToRow(CHOOSE i \in items : TRUE)]
  IN IF parentID = "" THEN {answer, [err |-> ErrValidation, row |-> NoRow]}
     ELSE {answer}

CallGetChild(c, label, parentID) ==
  /\ Begin(c, "GetChild", [NoArgs EXCEPT !.label = label, !.parentID = parentID],
           "GetChild_Query")
  /\ UNCHANGED local

GetChild_Query(c) ==
  /\ pc[c] = "GetChild_Query"
  /\ \E r \in GetChildResults(table, args[c].label, args[c].parentID) :
       Finish(c, r.row, r.err)
  /\ UNCHANGED <<table, op, args, local, pre, ddb, newClient>>

\* -------------------------------------------------------------- UpdateRow
\* ConditionExpression "attribute_not_exists(#type) AND attribute_not_exists(#id)"
\* evaluated against the item stored under the key (none: both absent)
ConditionNotExists(tbl, rowType, id) == GetItem(tbl, rowType, id) = {}

\* a write without ConditionExpression is accepted whatever is stored
ConditionExists_Unconditional(tbl, rowType, id) == TRUE

\* ConditionExpression "attribute_exists(#type) AND attribute_exists(#id)"
ConditionExists(tbl, rowType, id) == GetItem(tbl, rowType, id) # {}

\* UpdateItem "SET ..." on a key: the stored item (or, when there is none, a
\* new item holding just the key) with the SET attributes overwritten
UpdateItemSet(tbl, rowType, id, sets) ==
  LET old == GetItem(tbl, rowType, id)
      base == IF old = {}
              THEN [type |-> [S |-> rowType], id |-> [S |-> id]]
              ELSE CHOOSE i \in old : TRUE
  IN [a \in DOMAIN base \cup DOMAIN sets |->
        IF a \in DOMAIN sets THEN sets[a] ELSE base[a]]

CallUpdateRow(c, rowType, id, newLabel) ==
  /\ Begin(c, "UpdateRow",
           [NoArgs EXCEPT !.rowType = rowType, !.id = id, !.label = newLabel],
           "UpdateRow_GetItem")
  /\ UNCHANGED local

\* this, err := client.GetRowByID(ctx, rowType, id)
UpdateRow_GetItem(c) ==
  /\ pc[c] = "UpdateRow_GetItem"
  /\ LET output == GetItem(table, args[c].rowType, args[c].id) IN
       IF output = {}
       THEN /\ Finish(c, NoRow, ErrNotFoundRow)
            /\ UNCHANGED local
       ELSE \E this \in output :
              /\ local' = [local EXCEPT ![c].parentID = itemToRow(this).RowParentID]
              /\ pc' = [pc EXCEPT ![c] = "UpdateRow_Query"]
              /\ UNCHANGED ret
  /\ UNCHANGED <<table, op, args, pre, ddb, newClient>>

\* _, err = client.GetChild(ctx, newLabel, this.ParentID())
UpdateRow_Query(c) ==
  /\ pc[c] = "UpdateRow_Query"
  /\ \E r \in GetChildResults(table, args[c].label, local[c].parentID) :
       IF r.err = ErrNone THEN Finish(c, NoRow, ErrCollisionParentLabel)
       ELSE IF r.err # ErrNotFoundRow THEN Finish(c, NoRow, r.err)
       ELSE /\ pc' = [pc EXCEPT ![c] = "UpdateRow_UpdateItem"]
            /\ UNCHANGED ret
  /\ UNCHANGED <<table, op, args, local, pre, ddb, newClient>>

UpdateRow_UpdateItem(c) ==
  /\ pc[c] = "UpdateRow_UpdateItem"
  /\ IF ConditionNotExists(table, args[c].rowType, args[c].id)
     THEN LET new == UpdateItemSet(table, args[c].rowType, args[c].id,
                                   [label |-> [S |-> args[c].label]])
          IN /\ table' = (table \ GetItem(table, args[c].rowType, args[c].id))
                           \cup {new}
             /\ Finish(c, itemToRow(new), ErrNone)
     ELSE /\ Finish(c, NoRow, ErrConditionalCheckFailed)
          /\ UNCHANGED table
  /\ UNCHANGED <<op, args, local, pre, ddb, newClient>>

\* ------------------------------------------------------------ UpdateChild
\* args: rowType = childType, id = childID, label = newChildLabel,
\*       parentID = newParentID
CallUpdateChild(c, childType, childID, newChildLabel, parentType, newParentID) ==
  /\ Begin(c, "UpdateChild",
           [NoArgs EXCEPT !.rowType = childType, !.id = childID,
                          !.label = newChildLabel, !.parentType = parentType,
                          !.parentID = newParentID],
           "UpdateChild_GetItem")
  /\ UNCHANGED local

\* ensure new parent exists
UpdateChild_GetItem(c) ==
  /\ pc[c] = "UpdateChild_GetItem"
  /\ IF GetItem(table, args[c].parentType, args[c].parentID) = {}
     THEN Finish(c, NoRow, ErrNotFoundRow)
     ELSE /\ pc' = [pc EXCEPT ![c] = "UpdateChild_Query"]
          /\ UNCHANGED ret
  /\ UNCHANGED <<table, op, args, local, pre, ddb, newClient>>

\* UpdateChild without the test that the new label is available
UpdateChild_Query_NoCollisionTest(c) ==
  /\ pc[c] = "UpdateChild_Query"
  /\ pc' = [pc EXCEPT ![c] = "UpdateChild_UpdateItem"]
  /\ UNCHANGED <<table, op, args, local, ret, pre, ddb, newClient>>

\* ensure new label is available
UpdateChild_Query(c) ==
  /\ pc[c] = "UpdateChild_Query"
  /\ \E r \in GetChildResults(table, args[c].label, args[c].parentID) :
       IF r.err = ErrNone THEN Finish(c, NoRow, ErrCollisionParentLabel)
       ELSE IF r.err # ErrNotFoundRow THEN Finish(c, NoRow, r.err)
       ELSE /\ pc' = [pc EXCEPT ![c] = "UpdateChild_UpdateItem"]
            /\ UNCHANGED ret
  /\ UNCHANGED <<table, op, args, local, pre, ddb, newClient>>

\* update the item
UpdateChild_UpdateItem(c) ==
  /\ pc[c] = "UpdateChild_UpdateItem"
  /\ IF ConditionNotExists(table, args[c].rowType, args[c].id)
     THEN LET new == UpdateItemSet(table, args[c].rowType, args[c].id,
                                   [label |-> [S |-> args[c].label],
                                    parent_id |-> [S |-> args[c].parentID]])
          IN /\ table' = (table \ GetItem(table, args[c].rowType, args[c].id))
                           \cup {new}
             /\ Finish(c, itemToRow(new), ErrNone)
     ELSE /\ Finish(c, NoRow, ErrConditionalCheckFailed)
          /\ UNCHANGED table
  /\ UNCHANGED <<op, args, local, pre, ddb, newClient>>

\* --------------------------------------------------------------- ListRows
\* the filter as it would be with begins_with(#label, :label)
Contains_BeginsWith(s, sub) ==
  Len(sub) <= Len(s) /\ SubSeq(s, 1, Len(sub)) = sub

\* contains(#label, :label): the operand occurs in the label as a substring
Contains(s, sub) ==
  \E k \in 0..(Len(s) - Len(sub)) : SubSeq(s, k + 1, k + Len(sub)) = sub

\* GSI ByType (type HASH)
ByType(tbl, rowType) == {i \in tbl : i.type.S = rowType}

\* the FilterExpression ListRows builds from its non-empty filters
ListRowsFilter(item, labelFilter, parentIDFilter) ==
  /\ labelFilter # <<>> =>
       /\ storageAttrLabel \in DOMAIN item
       /\ Contains(item.label.S, labelFilter)
  /\ parentIDFilter # "" =>
       /\ storageAttrParentID \in DOMAIN item
       /\ item.parent_id.S = parentIDFilter

\* args: label = labelFilter, parentID = parentIDFilter
CallListRows(c, rowType, labelFilter, parentIDFilter) ==
  /\ Begin(c, "ListRows",
           [NoArgs EXCEPT !.rowType = rowType, !.label = labelFilter,
                          !.parentID = parentIDFilter],
           "ListRows_Query")
  /\ UNCHANGED local

ListRows_Query(c) ==
  /\ pc[c] = "ListRows_Query"
  /\ LET items == {i \in ByType(table, args[c].rowType) :
                     ListRowsFilter(i, args[c].label, args[c].parentID)}
     IN /\ ret' = [ret EXCEPT ![c] = [err |-> ErrNone, row |-> NoRow,
                                      rows |-> {itemToRow(i) : i \in items}]]
        /\ pc' = [pc EXCEPT ![c] = "done"]
  /\ UNCHANGED <<table, op, args, local, pre, ddb, newClient>>

\* ----------------------------------------------------------- UpdateColumn
CallUpdateColumn(c, rowType, rowID, columnName, columnValue) ==
  /\ Begin(c, "UpdateColumn",
           [NoArgs EXCEPT !.rowType = rowType, !.id = rowID,
                          !.columnName = columnName, !.columnValue = columnValue],
           "UpdateColumn_UpdateItem")
  /\ UNCHANGED local

\* UpdateItem "SET #columns.#key = :value" under attribute_exists: the
\* document path #columns.#key is valid only in an item that has a columns map.
\* :value is a member of the map ExpressionAttributeValues: when it is nil
\* the request is malformed, or lacks the value its expression uses.
UpdateColumn_UpdateItem(c) ==
  /\ pc[c] = "UpdateColumn_UpdateItem"
  /\ LET value == ifaceToAttributeValue(args[c].columnValue)
         old == GetItem(table, args[c].rowType, args[c].id)
     IN IF "NIL" \in DOMAIN value
        THEN /\ \E err \in {ErrSerialization, ErrValidation} :
                  Finish(c, NoRow, err)
             /\ UNCHANGED table
        ELSE IF InvalidSet(value)
        THEN /\ Finish(c, NoRow, ErrValidation)
             /\ UNCHANGED table
        ELSE IF ~ConditionExists(table, args[c].rowType, args[c].id)
        THEN /\ Finish(c, NoRow, ErrConditionalCheckFailed)
             /\ UNCHANGED table
        ELSE \E item \in old :
               IF storageAttrColumns \notin DOMAIN item
               THEN /\ Finish(c, NoRow, ErrValidation)
                    /\ UNCHANGED table
               ELSE LET m == item.columns.M
                        newM == [k \in DOMAIN m \cup {args[c].columnName} |->
                                   IF k = args[c].columnName THEN value ELSE m[k]]
                    IN /\ table' = (table \ {item})
                                     \cup {[item EXCEPT !.columns = [M |-> newM]]}
                       /\ Finish(c, NoRow, ErrNone)
  /\ UNCHANGED <<op, args, local, pre, ddb, newClient>>

\* ---------------------------------------------------------- UpdateColumns
CallUpdateColumns(c, rowType, rowID, columns) ==
  /\ Begin(c, "UpdateColumns",
           [NoArgs EXCEPT !.rowType = rowType, !.id = rowID, !.columns = columns],
           "UpdateColumns_UpdateItem")
  /\ UNCHANGED local

\* the same UpdateItem without its ConditionExpression: an upsert
UpdateColumns_UpdateItem_Unconditional(c) ==
  /\ pc[c] = "UpdateColumns_UpdateItem"
  /\ LET new == UpdateItemSet(table, args[c].rowType, args[c].id,
                              [columns |-> [M |-> columnsToMap(args[c].columns)]])
     IN /\ table' = (table \ GetItem(table, args[c].rowType, args[c].id))
                      \cup {new}
        /\ Finish(c, NoRow, ErrNone)
  /\ UNCHANGED <<op, args, local, pre, ddb, newClient>>

\* UpdateItem "SET #columns = :new_columns" under attribute_exists
UpdateColumns_UpdateItem(c) ==
  /\ pc[c] = "UpdateColumns_UpdateItem"
  /\ \E sent \in SentMap(columnsToMap(args[c].columns)) :
       IF sent.err # ErrNone
       THEN /\ Finish(c, NoRow, sent.err)
            /\ UNCHANGED table
       ELSE IF ConditionExists(table, args[c].rowType, args[c].id)
       THEN LET new == UpdateItemSet(table, args[c].rowType, args[c].id,
                                     [columns |-> [M |-> sent.M]])
            IN /\ table' = (table \ GetItem(table, args[c].rowType, args[c].id))
                             \cup {new}
               /\ Finish(c, NoRow, ErrNone)
       ELSE /\ Finish(c, NoRow, ErrConditionalCheckFailed)
            /\ UNCHANGED table
  /\ UNCHANGED <<op, args, local, pre, ddb, newClient>>

\* -------------------------------------------------------------- DeleteRow
CallDeleteRow(c, rowType, childType, id) ==
  /\ Begin(c, "DeleteRow",
           [NoArgs EXCEPT !.rowType = rowType, !.childType = childType, !.id = id],
           IF Len(childType) > 0 THEN "DeleteRow_Query" ELSE "DeleteRow_DeleteItem")
  /\ UNCHANGED local

\* ensure this row does not have any children
\* DeleteRow that removes the children it finds instead of refusing
DeleteRow_Query_Cascade(c) ==
  /\ pc[c] = "DeleteRow_Query"
  /\ table' = table \ ByTypeAndParent(table, args[c].childType, args[c].id)
  /\ pc' = [pc EXCEPT ![c] = "DeleteRow_DeleteItem"]
  /\ UNCHANGED <<ret, op, args, local, pre, ddb, newClient>>

DeleteRow_Query(c) ==
  /\ pc[c] = "DeleteRow_Query"
  /\ IF ByTypeAndParent(table, args[c].childType, args[c].id) # {}
     THEN Finish(c, NoRow, ErrCannotDeleteRow)
     ELSE /\ pc' = [pc EXCEPT ![c] = "DeleteRow_DeleteItem"]
          /\ UNCHANGED ret
  /\ UNCHANGED <<table, op, args, local, pre, ddb, newClient>>

\* DeleteRow's write as it would be under the condition
\* "attribute_not_exists(#type) AND attribute_not_exists(#id)"
DeleteRow_DeleteItem_NotExists(c) ==
  /\ pc[c] = "DeleteRow_DeleteItem"
  /\ IF GetItem(table, args[c].rowType, args[c].id) = {}
     THEN /\ table' = table \ GetItem(table, args[c].rowType, args[c].id)
          /\ Finish(c, NoRow, ErrNone)
     ELSE /\ Finish(c, NoRow, ErrConditionalCheckFailed)
          /\ UNCHANGED table
  /\ UNCHANGED <<op, args, local, pre, ddb, newClient>>

DeleteRow_DeleteItem(c) ==
  /\ pc[c] = "DeleteRow_DeleteItem"
  /\ IF ConditionExists(table, args[c].rowType, args[c].id)
     THEN /\ table' = table \ GetItem(table, args[c].rowType, args[c].id)
          /\ Finish(c, NoRow, ErrNone)
     ELSE /\ Finish(c, NoRow, ErrConditionalCheckFailed)
          /\ UNCHANGED table
  /\ UNCHANGED <<op, args, local, pre, ddb, newClient>>

\* ------------------------------------------------------------ specification
\* one caller issues the operations one after another: a call starts only
\* when no operation is in progress
Callers == {1}

Quiescent == \A c \in Clients : pc[c] = "idle"

\* a write is explored only if it leaves at most MaxRows rows
RowsBounded == Cardinality(table') <= MaxRows

Next ==
  \/ \E c \in Callers : Return(c)
  \/ \E c \in Callers, k \in Keys : Quiescent /\ CallGetRowByID(c, k[1], k[2])
  \/ \E c \in Callers : GetRowByID_GetItem(c)
  \/ \E c \in Callers, t \in Types, l \in Labels : Quiescent /\ CallGetRow(c, t, l)
  \/ \E c \in Callers : GetRow_Query(c)
  \/ \E c \in Callers, t \in Types, l \in Labels : Quiescent /\ CallCreateRow(c, t, l)
  \/ \E c \in Callers : CreateRow_Query(c)
  \/ \E c \in Callers : CreateRow_PutItem(c) /\ RowsBounded
  \/ \E c \in Callers, t \in Types, l \in Labels, p \in ParentRefs,
        cols \in ColumnInputs :
       Quiescent /\ CallCreateChild(c, t, l, p[1], p[2], cols)
  \/ \E c \in Callers : CreateChild_GetItem(c)
  \/ \E c \in Callers : CreateChild_Query(c)
  \/ \E c \in Callers : CreateChild_PutItem(c) /\ RowsBounded
  \/ \E c \in Callers, l \in Labels, p \in IDs : Quiescent /\ CallGetChild(c, l, p)
  \/ \E c \in Callers : GetChild_Query(c)
  \/ \E c \in Callers, k \in Keys, l \in Labels :
       Quiescent /\ CallUpdateRow(c, k[1], k[2], l)
  \/ \E c \in Callers : UpdateRow_GetItem(c)
  \/ \E c \in Callers : UpdateRow_Query(c)
  \/ \E c \in Callers : UpdateRow_UpdateItem(c) /\ RowsBounded
  \/ \E c \in Callers, k \in Keys, l \in Labels, p \in Keys :
       Quiescent /\ CallUpdateChild(c, k[1], k[2], l, p[1], p[2])
  \/ \E c \in Callers : UpdateChild_GetItem(c)
  \/ \E c \in Callers : UpdateChild_Query(c)
  \/ \E c \in Callers : UpdateChild_UpdateItem(c) /\ RowsBounded
  \/ \E c \in Callers, k \in Keys, ct \in Types \cup {""} :
       Quiescent /\ CallDeleteRow(c, k[1], ct, k[2])
  \/ \E c \in Callers : DeleteRow_Query(c)
  \/ \E c \in Callers : DeleteRow_DeleteItem(c)
  \/ \E c \in Callers, t \in Types, lf \in LabelFilters, pf \in ParentIDFilters :
       Quiescent /\ CallListRows(c, t, lf, pf)
  \/ \E c \in Callers : ListRows_Query(c)
  \/ \E c \in Callers, k \in ColumnKeys, n \in ColumnNames, v \in ColumnValues :
       Quiescent /\ CallUpdateColumn(c, k[1], k[2], n, v)
  \/ \E c \in Callers : UpdateColumn_UpdateItem(c)
  \/ \E c \in Callers, k \in ColumnKeys, cols \in ColumnUpdates :
       Quiescent /\ CallUpdateColumns(c, k[1], k[2], cols)
  \/ \E c \in Callers : UpdateColumns_UpdateItem(c)

Spec == Init /\ [][Next]_vars

\* ------------------------------------------------------ tree specification
\* The writing operations, called one after another with every row key and
\* label, parents being "org" rows.  No bound on the rows is needed: the
\* table holds at most one row per key of Keys.
TreeParents == {k \in Keys : k[1] = "org"}

TreeNext ==
  \/ \E c \in Callers : Return(c)
  \/ \E c \in Callers, l \in Labels : Quiescent /\ CallCreateRow(c, "org", l)
  \/ \E c \in Callers : CreateRow_Query(c)
  \/ \E c \in Callers : CreateRow_PutItem(c)
  \/ \E c \in Callers, t \in Types, l \in Labels, p \in TreeParents,
        cols \in ColumnInputs :
       Quiescent /\ CallCreateChild(c, t, l, p[1], p[2], cols)
  \/ \E c \in Callers : CreateChild_GetItem(c)
  \/ \E c \in Callers : CreateChild_Query(c)
  \/ \E c \in Callers : CreateChild_PutItem(c)
  \/ \E c \in Callers, k \in Keys, l \in Labels :
       Quiescent /\ CallUpdateRow(c, k[1], k[2], l)
  \/ \E c \in Callers : UpdateRow_GetItem(c)
  \/ \E c \in Callers : UpdateRow_Query(c)
  \/ \E c \in Callers : UpdateRow_UpdateItem(c)
  \/ \E c \in Callers, k \in Keys, l \in Labels, p \in TreeParents :
       Quiescent /\ CallUpdateChild(c, k[1], k[2], l, p[1], p[2])
  \/ \E c \in Callers : UpdateChild_GetItem(c)
  \/ \E c \in Callers : UpdateChild_Query(c)
  \/ \E c \in Callers : UpdateChild_UpdateItem(c)
  \/ \E c \in Callers, k \in ColumnKeys, n \in ColumnNames, v \in ColumnValues :
       Quiescent /\ CallUpdateColumn(c, k[1], k[2], n, v)
  \/ \E c \in Callers : UpdateColumn_UpdateItem(c)
  \/ \E c \in Callers, k \in ColumnKeys, cols \in ColumnUpdates :
       Quiescent /\ CallUpdateColumns(c, k[1], k[2], cols)
  \/ \E c \in Callers : UpdateColumns_UpdateItem(c)
  \/ \E c \in Callers, k \in Keys, ct \in Types \cup {""} :
       Quiescent /\ CallDeleteRow(c, k[1], ct, k[2])
  \/ \E c \in Callers : DeleteRow_Query(c)
  \/ \E c \in Callers : DeleteRow_DeleteItem(c)

TreeSpec == Init /\ [][TreeNext]_vars

\* ---------------------------------------------------- column specification
\* Rows are created, their columns written and read back, the calls made one
\* after another.  Column values are strings, string lists (one of them with
\* a repeated element) and, as a kind the row model does not know, an int.
ColumnSpecKeys == {<<"org", Generate("org", "x")>>, <<"team", Generate("team", "x")>>}
ColumnSpecNames == {"k", "j"}
ColumnSpecValues ==
  {GoString("w"), GoStringList(<<"s", "t">>), GoStringList(<<"s", "s">>), GoInt(1)}
ColumnSpecMaps ==
  {[n \in {"k", "j"} |-> IF n = "k" THEN GoString("v")
                                    ELSE GoStringList(<<"s", "t">>)],
   [n \in {"k", "j"} |-> IF n = "k" THEN GoString("v") ELSE GoInt(1)]}

ColumnNext ==
  \/ \E c \in Callers : Return(c)
  \/ \E c \in Callers : Quiescent /\ CallCreateRow(c, "org", <<"a">>)
  \/ \E c \in Callers : CreateRow_Query(c)
  \/ \E c \in Callers : CreateRow_PutItem(c)
  \/ \E c \in Callers, l \in Labels, cols \in ColumnSpecMaps :
       Quiescent /\ CallCreateChild(c, "team", l, "org", Generate("org", "x"), cols)
  \/ \E c \in Callers : CreateChild_GetItem(c)
  \/ \E c \in Callers : CreateChild_Query(c)
  \/ \E c \in Callers : CreateChild_PutItem(c)
  \/ \E c \in Callers, k \in ColumnSpecKeys, n \in ColumnSpecNames,
        v \in ColumnSpecValues :
       Quiescent /\ CallUpdateColumn(c, k[1], k[2], n, v)
  \/ \E c \in Callers : UpdateColumn_UpdateItem(c)
  \/ \E c \in Callers, k \in ColumnSpecKeys, cols \in ColumnSpecMaps :
       Quiescent /\ CallUpdateColumns(c, k[1], k[2], cols)
  \/ \E c \in Callers : UpdateColumns_UpdateItem(c)
  \/ \E c \in Callers, k \in ColumnSpecKeys :
       Quiescent /\ CallGetRowByID(c, k[1], k[2])
  \/ \E c \in Callers : GetRowByID_GetItem(c)

ColumnSpec == Init /\ [][ColumnNext]_vars

\* ------------------------------------------------ concurrent specification
\* Every client issues one operation, and the backend calls of the clients
\* interleave freely.  The calls are those of a caller that keeps to the
\* schema: "org" rows are roots, "team" rows are children of "org" rows, and
\* an "org" row is deleted with childType "team".

\* the item CreateRow writes
RootItem(rowType, suffix, label) ==
  [type |-> [S |-> rowType],
   id |-> [S |-> Generate(rowType, suffix)],
   label |-> [S |-> label]]

\* the item CreateChild writes
ChildItem(rowType, suffix, label, parentID, columns) ==
  [type |-> [S |-> rowType],
   id |-> [S |-> Generate(rowType, suffix)],
   label |-> [S |-> label],
   parent_id |-> [S |-> parentID],
   columns |-> [M |-> columnsToMap(columns)]]

OrgX == RootItem("org", "x", <<"a">>)
OrgY == RootItem("org", "y", <<"a">>)
TeamX == ChildItem("team", "x", <<"a">>, Generate("org", "x"),
                   [n \in {"k"} |-> GoString("v")])
TeamY == ChildItem("team", "y", <<"a">>, Generate("org", "x"),
                   [n \in {"k"} |-> GoString("v")])

\* The tables the clients start on: the empty table, the tables sequential
\* calls leave ({OrgX}, {OrgX, TeamX}), and the tables two racing creators
\* leave from {} and from {OrgX} ({OrgX, OrgY}, {OrgX, TeamX, TeamY}).
ConcTables ==
  {{}, {OrgX}, {OrgX, TeamX}, {OrgX, OrgY}, {OrgX, TeamX, TeamY}}

ConcInit ==
  /\ table \in ConcTables
  /\ pc = [c \in Clients |-> "idle"]
  /\ op = [c \in Clients |-> ""]
  /\ args = [c \in Clients |-> NoArgs]
  /\ local = [c \in Clients |-> NoLocal]
  /\ ret = [c \in Clients |-> NoRet]
  /\ pre = [c \in Clients |-> {}]
  /\ ddb = TableReady
  /\ newClient = Constructed

ConcNext ==
  \/ \E c \in Clients, l \in Labels : CallCreateRow(c, "org", l)
  \/ \E c \in Clients : CreateRow_Query(c)
  \/ \E c \in Clients : CreateRow_PutItem(c)
  \/ \E c \in Clients, cols \in ColumnInputs :
       CallCreateChild(c, "team", <<"a">>, "org", Generate("org", "x"), cols)
  \/ \E c \in Clients : CreateChild_GetItem(c)
  \/ \E c \in Clients : CreateChild_Query(c)
  \/ \E c \in Clients : CreateChild_PutItem(c)
  \/ \E c \in Clients :
       CallUpdateChild(c, "team", Generate("team", "x"), <<"a", "b">>,
                       "org", Generate("org", "x"))
  \/ \E c \in Clients : UpdateChild_GetItem(c)
  \/ \E c \in Clients : UpdateChild_Query(c)
  \/ \E c \in Clients : UpdateChild_UpdateItem(c)
  \/ \E c \in Clients : CallDeleteRow(c, "org", "team", Generate("org", "x"))
  \/ \E c \in Clients : DeleteRow_Query(c)
  \/ \E c \in Clients : DeleteRow_DeleteItem(c)
  \/ \E c \in Clients, t \in Types : CallGetRow(c, t, <<"a">>)
  \/ \E c \in Clients : GetRow_Query(c)
  \/ \E c \in Clients : CallGetChild(c, <<"a">>, Generate("org", "x"))
  \/ \E c \in Clients : GetChild_Query(c)

ConcSpec == ConcInit /\ [][ConcNext]_vars

\* ------------------------------------------------- table lifecycle manager
\* NewClient and createTableIfNotExists, one action per SDK call.  Store
\* constructions run one after another against one table name.
\*   ddb.table             "absent", "creating" (CreateTable accepted) or "present"
\*   ddb.createTableCalls  CreateTable requests issued so far
\*   ddb.tablesCreated     CreateTable requests that created the table
\*   newClient.n           constructions started
\*   newClient.describe    what DescribeTable returned in this construction
\*   newClient.createIssued  this construction issued a CreateTable request
\*   newClient.faulted     an SDK call of this construction failed for a
\*                         reason other than the state of the table
\*   newClient.err         what NewClient returned
\*   newClient.handle      NewClient returned a store handle

\* errors of the SDK calls
ErrLoadConfig == "failed to load configuration"
ErrResourceNotFound == "ResourceNotFoundException"
ErrResourceInUse == "ResourceInUseException"
ErrAccessDenied == "AccessDeniedException"
ErrInternalServer == "InternalServerError"
ErrRequestSend == "request send failed"

StatusBadRequest == 400

\* the status of the HTTP response an error carries; 0: the error is no
\* smithyhttp.ResponseError, or carries no response
StatusCode(err) ==
  CASE err \in {ErrResourceNotFound, ErrResourceInUse, ErrAccessDenied}
         -> StatusBadRequest
    [] err = ErrInternalServer -> 500
    [] OTHER -> 0

\* errors.As(err, &respErr) && respErr.Response != nil
HasResponse(err) == StatusCode(err) # 0

\* what DescribeTable can return: the truth about the table, or a failure
\* that has nothing to do with it
DescribeTableResults ==
  {IF ddb.table = "absent" THEN ErrResourceNotFound ELSE ErrNone,
   ErrAccessDenied, ErrInternalServer, ErrRequestSend}

\* what CreateTable can return
CreateTableResults ==
  {IF ddb.table = "absent" THEN ErrNone ELSE ErrResourceInUse,
   ErrAccessDenied, ErrInternalServer, ErrRequestSend}

Faults == {ErrLoadConfig, ErrAccessDenied, ErrInternalServer, ErrRequestSend}

NotConstructed ==
  [pc |-> "idle", n |-> 0, describe |-> "", createIssued |-> FALSE,
   faulted |-> FALSE, err |-> ErrNone, handle |-> FALSE]

LifecycleInit ==
  /\ table = {}
  /\ pc = [c \in Clients |-> "idle"]
  /\ op = [c \in Clients |-> ""]
  /\ args = [c \in Clients |-> NoArgs]
  /\ local = [c \in Clients |-> NoLocal]
  /\ ret = [c \in Clients |-> NoRet]
  /\ pre = [c \in Clients |-> {}]
  /\ ddb \in {[table |-> t, createTableCalls |-> 0, tablesCreated |-> 0] :
               t \in {"absent", "present"}}
  /\ newClient = NotConstructed

\* NewClient returns (this, nil) or (nil, err)
NewClientReturn(nc, err) ==
  [nc EXCEPT !.pc = "done", !.err = err, !.handle = (err = ErrNone),
             !.faulted = nc.faulted \/ err \in Faults]

CallNewClient ==
  /\ newClient.pc \in {"idle", "done"}
  /\ newClient.n < MaxConstructions
  /\ newClient' = [NotConstructed EXCEPT !.pc = "LoadDefaultConfig",
                                         !.n = newClient.n + 1]
  /\ UNCHANGED <<rowVars, ddb>>

NewClient_LoadDefaultConfig ==
  /\ newClient.pc = "LoadDefaultConfig"
  /\ \/ newClient' = [newClient EXCEPT !.pc = "DescribeTable"]
     \/ newClient' = NewClientReturn(newClient, ErrLoadConfig)
  /\ UNCHANGED <<rowVars, ddb>>

\* the branch createTableIfNotExists takes on DescribeTable's error: a
\* ResponseError that carries a response falls through to CreateTable
\* whatever its status, any other error is returned
DescribeTableFallsThrough(err) == HasResponse(err)

\* createTableIfNotExists without the return on "table already exists"
createTableIfNotExists_DescribeTable_NoEarlyReturn ==
  /\ newClient.pc = "DescribeTable"
  /\ \E err \in DescribeTableResults :
       LET nc == [newClient EXCEPT !.describe = err,
                                   !.faulted = err \in Faults]
       IN newClient' =
            IF err = ErrNone \/ DescribeTableFallsThrough(err)
            THEN [nc EXCEPT !.pc = "CreateTable"]
            ELSE NewClientReturn(nc, err)
  /\ UNCHANGED <<rowVars, ddb>>

createTableIfNotExists_DescribeTable ==
  /\ newClient.pc = "DescribeTable"
  /\ \E err \in DescribeTableResults :
       LET nc == [newClient EXCEPT !.describe = err,
                                   !.faulted = err \in Faults]
       IN newClient' =
            IF err = ErrNone THEN NewClientReturn(nc, ErrNone)
            ELSE IF DescribeTableFallsThrough(err)
                 THEN [nc EXCEPT !.pc = "CreateTable"]
                 ELSE NewClientReturn(nc, err)
  /\ UNCHANGED <<rowVars, ddb>>

createTableIfNotExists_CreateTable ==
  /\ newClient.pc = "CreateTable"
  /\ \E err \in CreateTableResults :
       /\ ddb' = [ddb EXCEPT
                    !.createTableCalls = @ + 1,
                    !.tablesCreated = IF err = ErrNone THEN @ + 1 ELSE @,
                    !.table = IF err = ErrNone THEN "creating" ELSE @]
       /\ newClient' = NewClientReturn([newClient EXCEPT !.createIssued = TRUE],
                                       err)
  /\ UNCHANGED rowVars

\* the service finishes creating the table
TableBecomesActive ==
  /\ ddb.table = "creating"
  /\ ddb' = [ddb EXCEPT !.table = "present"]
  /\ UNCHANGED <<rowVars, newClient>>

LifecycleNext ==
  \/ CallNewClient
  \/ NewClient_LoadDefaultConfig
  \/ createTableIfNotExists_DescribeTable
  \/ createTableIfNotExists_CreateTable
  \/ TableBecomesActive

LifecycleSpec == LifecycleInit /\ [][LifecycleNext]_vars

TypeOK ==
  /\ pc \in [Clients -> STRING]
  /\ \A i \in table : {storageKeyType, storageKeyID, storageAttrLabel} \subseteq DOMAIN i

\* ---------------------------------------------------------------- properties
\* client c holds the result of a completed call of operation name
Done(c, name) == pc[c] = "done" /\ op[c] = name

HasParent(i) == storageAttrParentID \in DOMAIN i
ParentOf(i) == IF HasParent(i) THEN i.parent_id.S ELSE ""
IsRoot(i) == ~HasParent(i)

\* the items of tbl stored under the key (rowType, id)
Stored(tbl, rowType, id) == {i \in tbl : i.type.S = rowType /\ i.id.S = id}

\* C1: calling CreateRow(type, label) again after it succeeded fails with
\* ErrCollisionTypeLabel, writes nothing and leaves the first row as it was.
\* A successful CreateRow leaves a root row (type, id, label) in the table;
\* a CreateRow called while a root row of that type and label exists fails
\* with ErrCollisionTypeLabel and the table is what it was at the call.
C1_SecondCreateRowCollides ==
  \A c \in Clients :
    Done(c, "CreateRow") =>
      /\ ret[c].err = ErrNone =>
           [type |-> [S |-> args[c].rowType], id |-> [S |-> ret[c].row.RowID],
            label |-> [S |-> args[c].label]] \in table
      /\ (\E i \in pre[c] : /\ IsRoot(i)
                            /\ i.type.S = args[c].rowType
                            /\ i.label.S = args[c].label) =>
           /\ ret[c].err = ErrCollisionTypeLabel
           /\ table = pre[c]

C1_Witness ==
  \E c \in Clients :
    /\ Done(c, "CreateRow")
    /\ ret[c].err = ErrCollisionTypeLabel
    /\ table # {}
    /\ \E i \in pre[c] : /\ IsRoot(i)
                         /\ i.type.S = args[c].rowType
                         /\ i.label.S = args[c].label

\* C2: calling CreateChild again with the same label under the same existing
\* parent fails with ErrCollisionParentLabel and writes nothing, whatever the
\* two child types are.  A successful CreateChild leaves an item with that
\* parent_id and label; a CreateChild called with an existing parent that
\* already has a child with that label (of any type) fails with
\* ErrCollisionParentLabel and leaves the table as it was.
C2_SecondCreateChildCollides ==
  \A c \in Clients :
    Done(c, "CreateChild") =>
      /\ ret[c].err = ErrNone =>
           \E i \in table : /\ i.id.S = ret[c].row.RowID
                            /\ i.type.S = args[c].rowType
                            /\ ParentOf(i) = args[c].parentID
                            /\ i.label.S = args[c].label
      /\ (/\ Stored(pre[c], args[c].parentType, args[c].parentID) # {}
          /\ \E i \in pre[c] : /\ ParentOf(i) = args[c].parentID
                               /\ i.label.S = args[c].label) =>
           /\ ret[c].err = ErrCollisionParentLabel
           /\ table = pre[c]

\* the second child is of another type than the first
C2_Witness ==
  \E c \in Clients :
    /\ Done(c, "CreateChild")
    /\ ret[c].err = ErrCollisionParentLabel
    /\ Stored(pre[c], args[c].parentType, args[c].parentID) # {}
    /\ \E i \in pre[c] : /\ ParentOf(i) = args[c].parentID
                         /\ i.label.S = args[c].label
                         /\ i.type.S # args[c].rowType

\* C3: DeleteRow with a non-empty childType fails with ErrCannotDeleteRow
\* whenever some row of type childType has parent_id = id, and nothing has
\* been changed: the row and its children are all still there.
C3_DeleteRowWithChildrenRefused ==
  \A c \in Clients :
    (/\ Done(c, "DeleteRow")
     /\ args[c].childType # ""
     /\ \E i \in pre[c] : i.type.S = args[c].childType /\ ParentOf(i) = args[c].id) =>
      /\ ret[c].err = ErrCannotDeleteRow
      /\ table = pre[c]

\* the refused row exists
C3_Witness ==
  \E c \in Clients :
    /\ Done(c, "DeleteRow")
    /\ ret[c].err = ErrCannotDeleteRow
    /\ Stored(table, args[c].rowType, args[c].id) # {}
    /\ \E i \in table : i.type.S = args[c].childType /\ ParentOf(i) = args[c].id

\* C4: CreateChild under a parent key (parentType, parentID) that is not in
\* the table fails with ErrNotFoundRow and the table holds exactly the items
\* it held before the call.
C4_CreateChildWithoutParent ==
  \A c \in Clients :
    (/\ Done(c, "CreateChild")
     /\ Stored(pre[c], args[c].parentType, args[c].parentID) = {}) =>
      /\ ret[c].err = ErrNotFoundRow
      /\ table = pre[c]

\* a row with id parentID exists, but under another type than parentType
C4_Witness ==
  \E c \in Clients :
    /\ Done(c, "CreateChild")
    /\ ret[c].err = ErrNotFoundRow
    /\ Stored(pre[c], args[c].parentType, args[c].parentID) = {}
    /\ \E i \in pre[c] : i.id.S = args[c].parentID

\* C5: right after a successful CreateRow(type, label), GetRow(type, label)
\* succeeds and returns the id CreateRow returned.
C5_GetRowAfterCreateRow ==
  \A c \in Clients :
    (Done(c, "CreateRow") /\ ret[c].err = ErrNone) =>
      LET r == GetRowResult(table, args[c].rowType, args[c].label) IN
        /\ r.err = ErrNone
        /\ r.row.RowID = ret[c].row.RowID
        /\ r.row.RowID # ""

\* a second root row of the type has been created
C5_Witness ==
  \E c \in Clients :
    /\ Done(c, "CreateRow")
    /\ ret[c].err = ErrNone
    /\ \E i \in pre[c] : i.type.S = args[c].rowType

\* C6: DeleteRow on an existing row with no child of childType (or with an
\* empty childType) succeeds and removes exactly that item: GetRowByID on its
\* key then finds nothing, and every other row is unchanged.
C6_DeleteRowRemoves ==
  \A c \in Clients :
    (/\ Done(c, "DeleteRow")
     /\ Stored(pre[c], args[c].rowType, args[c].id) # {}
     /\ \/ args[c].childType = ""
        \/ ~\E i \in pre[c] : i.type.S = args[c].childType /\ ParentOf(i) = args[c].id) =>
      /\ ret[c].err = ErrNone
      /\ table = pre[c] \ Stored(pre[c], args[c].rowType, args[c].id)
      /\ GetItem(table, args[c].rowType, args[c].id) = {}

\* a row is deleted with a non-empty childType while other rows stay
C6_Witness ==
  \E c \in Clients :
    /\ Done(c, "DeleteRow")
    /\ ret[c].err = ErrNone
    /\ args[c].childType # ""
    /\ table # {}
    /\ Stored(pre[c], args[c].rowType, args[c].id) # {}
    /\ Stored(table, args[c].rowType, args[c].id) = {}

\* siblings of the item stored under (rowType, id): the other items with the
\* same parent_id (root rows are siblings under the empty parent)
SiblingLabels(tbl, rowType, id) ==
  {j.label.S : j \in {j \in tbl : /\ ~(j.type.S = rowType /\ j.id.S = id)
                                  /\ \E i \in Stored(tbl, rowType, id) :
                                       ParentOf(j) = ParentOf(i)}}

\* C7: UpdateRow(type, id, newLabel) on an existing row whose siblings do not
\* use newLabel succeeds, and the row then has label = newLabel with its type,
\* id, parent_id and columns unchanged.
C7_UpdateRowRelabels ==
  \A c \in Clients :
    (/\ Done(c, "UpdateRow")
     /\ Stored(pre[c], args[c].rowType, args[c].id) # {}
     /\ args[c].label \notin SiblingLabels(pre[c], args[c].rowType, args[c].id)) =>
      /\ ret[c].err = ErrNone
      /\ \E i \in Stored(pre[c], args[c].rowType, args[c].id) :
           table = (pre[c] \ {i}) \cup {[i EXCEPT !.label = [S |-> args[c].label]]}

\* C8: UpdateChild on a key (childType, childID) that is not in the table
\* fails and does not create a row under that key.
C8_UpdateChildNeverCreates ==
  \A c \in Clients :
    (/\ Done(c, "UpdateChild")
     /\ Stored(pre[c], args[c].rowType, args[c].id) = {}) =>
      /\ ret[c].err # ErrNone
      /\ Stored(table, args[c].rowType, args[c].id) = {}

\* C9: UpdateChild on an existing child, with an existing new parent under
\* which the new label is free, succeeds; the row then has label =
\* newChildLabel and parent_id = newParentID.
C9_UpdateChildMoves ==
  \A c \in Clients :
    (/\ Done(c, "UpdateChild")
     /\ \E i \in Stored(pre[c], args[c].rowType, args[c].id) : HasParent(i)
     /\ Stored(pre[c], args[c].parentType, args[c].parentID) # {}
     /\ ~\E j \in pre[c] : ParentOf(j) = args[c].parentID /\ j.label.S = args[c].label) =>
      /\ ret[c].err = ErrNone
      /\ \E i \in Stored(table, args[c].rowType, args[c].id) :
           i.label.S = args[c].label /\ ParentOf(i) = args[c].parentID

\* C10: UpdateRow of a root row to a label that another root row of the same
\* type already has fails with a collision error and leaves the table as it
\* was.
C10_UpdateRowRootCollision ==
  \A c \in Clients :
    (/\ Done(c, "UpdateRow")
     /\ \E i \in Stored(pre[c], args[c].rowType, args[c].id) : IsRoot(i)
     /\ \E j \in pre[c] : /\ IsRoot(j)
                          /\ j.type.S = args[c].rowType
                          /\ j.id.S # args[c].id
                          /\ j.label.S = args[c].label) =>
      /\ ret[c].err \in {ErrCollisionParentLabel, ErrCollisionTypeLabel}
      /\ table = pre[c]
\* C11: UpdateColumn and UpdateColumns called on a (type, id) under which no
\* row is stored return an error, and the table after the call holds exactly
\* the items it held before: no row was created.
C11_UpdateColumnsMissingRow ==
  \A c \in Clients :
    (/\ Done(c, "UpdateColumn") \/ Done(c, "UpdateColumns")
     /\ Stored(pre[c], args[c].rowType, args[c].id) = {})
    => /\ ret[c].err # ErrNone
       /\ table = pre[c]

\* UpdateColumns has failed on a missing key of a table that holds another
\* row of the same type
C11_Witness ==
  \E c \in Clients :
    /\ Done(c, "UpdateColumns")
    /\ Stored(pre[c], args[c].rowType, args[c].id) = {}
    /\ \E i \in pre[c] : i.type.S = args[c].rowType
    /\ ret[c].err = ErrConditionalCheckFailed
    /\ table = pre[c]

\* C12: DeleteRow called on a (rowType, id) under which no row is stored
\* returns an error, with an empty childType and with a non-empty one, and
\* leaves the table as it was.
C12_DeleteRowMissingRow ==
  \A c \in Clients :
    (/\ Done(c, "DeleteRow")
     /\ Stored(pre[c], args[c].rowType, args[c].id) = {})
    => /\ ret[c].err \in {ErrConditionalCheckFailed, ErrCannotDeleteRow}
       /\ table = pre[c]

\* DeleteRow with a childType has passed the child query and failed at the
\* conditional delete of a missing key, in a table that holds other rows
C12_Witness ==
  \E c \in Clients :
    /\ Done(c, "DeleteRow")
    /\ args[c].childType # ""
    /\ Stored(pre[c], args[c].rowType, args[c].id) = {}
    /\ pre[c] # {}
    /\ ret[c].err = ErrConditionalCheckFailed
    /\ table = pre[c]

\* C13: the uniqueness query and the write of a creator are separate steps.
\* A CreateRow (CreateChild) that has passed its query writes its row as long
\* as the generated key is free, even when a row with the same (type, label)
\* (the same (parent_id, label)) has been written in between; the table then
\* holds two rows with that label in the same scope.
C13_CreateNotAtomic ==
  [][\A c \in Clients :
       /\ (/\ pc[c] = "CreateRow_PutItem" /\ pc'[c] = "done"
           /\ Stored(table, args[c].rowType, local'[c].id) = {}
           /\ ByTypeAndLabel(table, args[c].rowType, args[c].label) # {})
          => /\ ret'[c].err = ErrNone
             /\ Cardinality(ByTypeAndLabel(table', args[c].rowType,
                                           args[c].label)) >= 2
       /\ (/\ pc[c] = "CreateChild_PutItem" /\ pc'[c] = "done"
           /\ Stored(table, args[c].rowType, local'[c].id) = {}
           /\ ByParentAndLabel(table, args[c].parentID, args[c].label) # {})
          => /\ ret'[c].err = ErrNone
             /\ Cardinality(ByParentAndLabel(table', args[c].parentID,
                                             args[c].label)) >= 2
    ]_vars

\* two CreateChild calls, both started while no child of the parent had the
\* label, have both succeeded and left two children with the same label
C13_Witness ==
  \E c1, c2 \in Clients :
    /\ c1 # c2
    /\ Done(c1, "CreateChild") /\ Done(c2, "CreateChild")
    /\ ret[c1].err = ErrNone /\ ret[c2].err = ErrNone
    /\ args[c1].parentID = args[c2].parentID
    /\ args[c1].label = args[c2].label
    /\ ByParentAndLabel(pre[c1], args[c1].parentID, args[c1].label) = {}
    /\ ByParentAndLabel(pre[c2], args[c2].parentID, args[c2].label) = {}
    /\ \E i, j \in table :
         /\ i # j
         /\ HasParent(i) /\ HasParent(j)
         /\ i.parent_id.S = args[c1].parentID /\ j.parent_id.S = args[c1].parentID
         /\ i.label.S = args[c1].label /\ j.label.S = args[c1].label
         /\ i.id.S = ret[c1].row.RowID /\ j.id.S = ret[c2].row.RowID

\* the same for two CreateRow calls and the scope (type, label)
C13_RootRace ==
  \E c1, c2 \in Clients :
    /\ c1 # c2
    /\ Done(c1, "CreateRow") /\ Done(c2, "CreateRow")
    /\ ret[c1].err = ErrNone /\ ret[c2].err = ErrNone
    /\ args[c1].rowType = args[c2].rowType
    /\ args[c1].label = args[c2].label
    /\ pre[c1] = {} /\ pre[c2] = {}
    /\ Cardinality(ByTypeAndLabel(table, args[c1].rowType, args[c1].label)) = 2

\* the primary key: no two items of tbl are stored under one (type, id)
KeyUnique(tbl) ==
  \A i, j \in tbl : (i.type.S = j.type.S /\ i.id.S = j.id.S) => i = j

\* C14: no two items share a key (type, id), and a creator whose generated
\* id is already stored under its type (written before the call or by a
\* concurrent creator) has its PutItem rejected: the call returns the
\* condition failure and the table, hence the stored item's label, parent_id
\* and columns, stays as it was.
C14_CreateNeverOverwrites ==
  /\ [](KeyUnique(table))
  /\ [][\A c \in Clients :
         (/\ pc[c] \in {"CreateRow_PutItem", "CreateChild_PutItem"}
          /\ pc'[c] = "done"
          /\ Stored(table, args[c].rowType, local'[c].id) # {})
         => /\ ret'[c].err = ErrConditionalCheckFailed
            /\ table' = table
      ]_vars

\* two concurrent CreateRow calls with different labels generated the same
\* id, free when both were called: the first write stands with its label, the
\* second call has failed
C14_Witness ==
  \E c1, c2 \in Clients :
    /\ c1 # c2
    /\ Done(c1, "CreateRow") /\ Done(c2, "CreateRow")
    /\ args[c1].rowType = args[c2].rowType
    /\ args[c1].label # args[c2].label
    /\ local[c1].id = local[c2].id
    /\ Stored(pre[c1], args[c1].rowType, local[c1].id) = {}
    /\ Stored(pre[c2], args[c2].rowType, local[c2].id) = {}
    /\ ret[c1].err = ErrNone
    /\ ret[c2].err = ErrConditionalCheckFailed
    /\ Stored(table, args[c1].rowType, local[c1].id)
         = {RootItem(args[c1].rowType, "x", args[c1].label)}

\* C15: a DescribeTable failure other than table-not-found is fatal: no
\* CreateTable request follows it, and NewClient returns that error and no
\* store handle.
C15_DescribeFailureFatal ==
  newClient.describe \notin {"", ErrNone, ErrResourceNotFound}
  => /\ newClient.pc # "CreateTable"
     /\ ~newClient.createIssued
     /\ newClient.pc = "done" => /\ newClient.err = newClient.describe
                                 /\ ~newClient.handle

\* C16: ensuring the table exists is idempotent.  A construction whose
\* DescribeTable finds the table returns success and a store handle without
\* issuing CreateTable; over any number of constructions run one after
\* another the table is created at most once; every construction none of
\* whose SDK calls fails for a reason of its own succeeds; and a store handle
\* is returned only by a construction whose table step succeeded, the table
\* then existing.
C16_EnsureTableIdempotent ==
  /\ (newClient.pc = "done" /\ newClient.describe = ErrNone)
       => /\ newClient.err = ErrNone
          /\ newClient.handle
          /\ ~newClient.createIssued
  /\ ddb.tablesCreated <= 1
  /\ ddb.tablesCreated = 1 => ddb.table # "absent"
  /\ (newClient.pc = "done" /\ ~newClient.faulted) => newClient.err = ErrNone
  /\ newClient.handle
       => /\ newClient.pc = "done"
          /\ newClient.err = ErrNone
          /\ ddb.table # "absent"
          /\ newClient.describe = ErrNone \/ newClient.createIssued

\* a first construction created the table; the last of MaxConstructions
\* constructions has found it and returned a handle without a CreateTable
C16_Witness ==
  /\ newClient.n = MaxConstructions
  /\ newClient.pc = "done"
  /\ newClient.describe = ErrNone
  /\ newClient.handle
  /\ ddb.tablesCreated = 1
  /\ ddb.createTableCalls = 1

\* C17: in every state reached by CreateRow, CreateChild, UpdateRow,
\* UpdateChild, UpdateColumn, UpdateColumns and DeleteRow calls made one after
\* another, two distinct rows with the same non-empty parent_id have
\* different labels, whatever their types.
C17_ParentLabelUnique ==
  \A i, j \in table :
    (/\ i # j
     /\ HasParent(i) /\ HasParent(j)
     /\ i.parent_id.S # ""
     /\ i.parent_id.S = j.parent_id.S)
    => i.label.S # j.label.S

\* a parent has two children of different types, and a CreateChild of one
\* type under it has been refused the label of the child of the other type
C17_Witness ==
  \E c \in Clients :
    /\ Done(c, "CreateChild")
    /\ ret[c].err = ErrCollisionParentLabel
    /\ table = pre[c]
    /\ \E i, j \in table :
         /\ i.type.S # j.type.S
         /\ HasParent(i) /\ HasParent(j)
         /\ i.parent_id.S = args[c].parentID
         /\ j.parent_id.S = args[c].parentID
         /\ i.label.S = args[c].label
         /\ i.type.S # args[c].rowType

\* C18: when every DeleteRow names as childType the type of the children
\* created under the row it deletes, every row with a non-empty parent_id has
\* its parent in the table, in every state of every interleaving of
\* CreateChild and UpdateChild with DeleteRow.
C18_ParentExists ==
  \A i \in table :
    (HasParent(i) /\ i.parent_id.S # "")
    => \E p \in table : p.id.S = i.parent_id.S

\* what a lookup that found the items matches must return: the row if there
\* is exactly one, ErrNotFoundRow if there is none, ErrTooManyFound otherwise
ExactlyOne(matches, r) ==
  /\ matches = {} => (r.err = ErrNotFoundRow /\ r.row = NoRow)
  /\ Cardinality(matches) = 1
       => (r.err = ErrNone /\ \A i \in matches : r.row = itemToRow(i))
  /\ Cardinality(matches) >= 2 => (r.err = ErrTooManyFound /\ r.row = NoRow)

\* C19: GetRow(type, label) and GetChild(label, parentID) return a row only
\* when exactly one row of the table they query matches; with no match they
\* return ErrNotFoundRow, with two or more ErrTooManyFound and no row.
C19_LookupExactlyOne ==
  [][\A c \in Clients :
       /\ (pc[c] = "GetRow_Query" /\ pc'[c] = "done")
          => ExactlyOne(ByTypeAndLabel(table, args[c].rowType, args[c].label),
                        ret'[c])
       /\ (pc[c] = "GetChild_Query" /\ pc'[c] = "done" /\ args[c].parentID # "")
          => ExactlyOne(ByParentAndLabel(table, args[c].parentID, args[c].label),
                        ret'[c])
    ]_vars

\* a GetRow and a GetChild have both found two matching rows in the table
\* two racing creators left, and both have returned ErrTooManyFound
C19_Witness ==
  \E c1, c2 \in Clients :
    /\ Done(c1, "GetRow") /\ Done(c2, "GetChild")
    /\ table = pre[c1] /\ table = pre[c2]
    /\ Cardinality(ByTypeAndLabel(table, args[c1].rowType, args[c1].label)) = 2
    /\ Cardinality(ByParentAndLabel(table, args[c2].parentID, args[c2].label)) = 2
    /\ ret[c1].err = ErrTooManyFound /\ ret[c2].err = ErrTooManyFound
    /\ ret[c1].row = NoRow /\ ret[c2].row = NoRow

\* sub = s[i..j] for some i, j
IsSubstring(sub, s) ==
  \E i \in 1..(Len(s) + 1), j \in 0..Len(s) : SubSeq(s, i, j) = sub

\* the rows of tbl that ListRows(rowType, labelFilter, parentIDFilter) is to
\* return
Listed(tbl, rowType, labelFilter, parentIDFilter) ==
  {itemToRow(i) : i \in
     {i \in tbl : /\ i.type.S = rowType
                  /\ labelFilter = <<>> \/ IsSubstring(labelFilter, i.label.S)
                  /\ parentIDFilter = "" \/ ParentOf(i) = parentIDFilter}}

\* C20: ListRows returns exactly the rows of the given type whose label
\* contains labelFilter as a substring, if labelFilter is not empty, and
\* whose parent_id equals parentIDFilter, if parentIDFilter is not empty;
\* the filters combine with AND and no row of another type is returned.
C20_ListRowsExact ==
  \A c \in Clients :
    Done(c, "ListRows")
    => /\ ret[c].err = ErrNone
       /\ table = pre[c]
       /\ ret[c].rows = Listed(table, args[c].rowType, args[c].label,
                               args[c].parentID)

\* ListRows with both filters, the label filter occurring inside the label
\* but not at its start, has returned one of two rows of the type
C20_Witness ==
  \E c \in Clients :
    /\ Done(c, "ListRows")
    /\ args[c].label = <<"b">>
    /\ args[c].parentID # ""
    /\ Cardinality(ret[c].rows) = 1
    /\ \A r \in ret[c].rows : r.RowLabel = <<"a", "b">>
                               /\ r.RowParentID = args[c].parentID
    /\ Cardinality(ByType(table, args[c].rowType)) = 2

\* the stored attribute value av holds the Go value v
Faithful(av, v) ==
  \/ v.kind = "string" /\ av = [S |-> v.str]
  \/ v.kind = "[]string" /\ "SS" \in DOMAIN av /\ Range(av.SS) = Range(v.list)

\* the columns map stored under (rowType, id); empty when there is none
StoredColumns(tbl, rowType, id) ==
  LET with == {i \in Stored(tbl, rowType, id) : storageAttrColumns \in DOMAIN i}
  IN IF with = {} THEN [k \in {} |-> [NIL |-> TRUE]]
     ELSE (CHOOSE i \in with : TRUE).columns.M

\* C21: a write of column values that succeeds has stored every value it
\* was given, whatever its kind: CreateChild and UpdateColumns leave each
\* name of their columns mapping stored with its value, UpdateColumn leaves
\* columnName stored with its value.  A value is never dropped or emptied.
C21_NoSilentCoercion ==
  \A c \in Clients :
    /\ (Done(c, "CreateChild") /\ ret[c].err = ErrNone)
       => LET m == StoredColumns(table, args[c].rowType, local[c].id)
          IN \A n \in DOMAIN args[c].columns :
               n \in DOMAIN m /\ Faithful(m[n], args[c].columns[n])
    /\ (Done(c, "UpdateColumns") /\ ret[c].err = ErrNone)
       => LET m == StoredColumns(table, args[c].rowType, args[c].id)
          IN \A n \in DOMAIN args[c].columns :
               n \in DOMAIN m /\ Faithful(m[n], args[c].columns[n])
    /\ (Done(c, "UpdateColumn") /\ ret[c].err = ErrNone)
       => LET m == StoredColumns(table, args[c].rowType, args[c].id)
          IN /\ args[c].columnName \in DOMAIN m
             /\ Faithful(m[args[c].columnName], args[c].columnValue)

\* every value of the columns mapping is a string or a list of strings
Supported(columns) ==
  \A n \in DOMAIN columns : columns[n].kind \in {"string", "[]string"}

\* the columns mapping m is stored as the attribute map stored
SameColumns(stored, m) ==
  /\ DOMAIN stored = DOMAIN m
  /\ \A n \in DOMAIN m : Faithful(stored[n], m[n])

\* C22: column round trip.  A CreateChild or UpdateColumns that succeeds with
\* a columns mapping of strings and sets of strings has stored the same names
\* with the same values, and a GetRowByID that succeeds returns a columns
\* mapping with the names stored and the values stored; a set of strings is
\* the same value whatever the order of its members.
C22_ColumnRoundTrip ==
  \A c \in Clients :
    /\ (Done(c, "CreateChild") /\ ret[c].err = ErrNone
          /\ Supported(args[c].columns))
       => SameColumns(StoredColumns(table, args[c].rowType, local[c].id),
                      args[c].columns)
    /\ (Done(c, "UpdateColumns") /\ ret[c].err = ErrNone
          /\ Supported(args[c].columns))
       => SameColumns(StoredColumns(table, args[c].rowType, args[c].id),
                      args[c].columns)
    /\ (Done(c, "GetRowByID") /\ ret[c].err = ErrNone)
       => SameColumns(StoredColumns(table, args[c].rowType, args[c].id),
                      ret[c].row.RowColumns)

\* a row written with k = "v" and j = {"s", "t"} is read back, the set
\* arriving in the other order
C22_Witness ==
  \E c \in Clients :
    /\ Done(c, "GetRowByID") /\ ret[c].err = ErrNone
    /\ DOMAIN ret[c].row.RowColumns = {"k", "j"}
    /\ ret[c].row.RowColumns["k"] = GoString("v")
    /\ ret[c].row.RowColumns["j"] = GoStringList(<<"t", "s">>)
    /\ StoredColumns(table, args[c].rowType, args[c].id)["j"]
         = [SS |-> <<"s", "t">>]

\* the rows of tbl are sound: one root row per (type, label), one child per
\* (parent_id, label), every parent_id names a row
SoundTable(tbl) ==
  /\ \A i, j \in tbl :
       (IsRoot(i) /\ IsRoot(j) /\ i.type = j.type /\ i.label = j.label) => i = j
  /\ \A i, j \in tbl :
       (HasParent(i) /\ HasParent(j) /\ i.parent_id = j.parent_id
          /\ i.label = j.label) => i = j
  /\ \A i \in tbl : HasParent(i) => \E p \in tbl : p.id.S = ParentOf(i)

\* C23: with operations one after the other, GetRow(type, label) on a table
\* that holds no duplicate root (type, label), no duplicate (parent_id,
\* label) and no dangling parent never returns ErrTooManyFound.
C23_NoTooManyFound ==
  \A c \in Clients :
    (Done(c, "GetRow") /\ SoundTable(pre[c])) => ret[c].err # ErrTooManyFound

\* C24: CreateRow(type, label) fails with ErrCollisionTypeLabel only if a
\* root row of that type with that label exists.
C24_CollisionOnlyWithRoot ==
  \A c \in Clients :
    (Done(c, "CreateRow") /\ ret[c].err = ErrCollisionTypeLabel)
    => \E i \in pre[c] :
         IsRoot(i) /\ i.type.S = args[c].rowType /\ i.label.S = args[c].label

ReadOps == {"GetRowByID", "GetRow", "GetChild", "ListRows"}

\* the table is as the call of c found it
Untouched(c) == table = pre[c]

C25_Frame ==
  \A c \in Clients :
    /\ pc[c] \notin {"idle", "done"} => Untouched(c)
    /\ (pc[c] = "done" /\ op[c] \in ReadOps) => Untouched(c)
    /\ (pc[c] = "done" /\ ret[c].err # ErrNone) => Untouched(c)

\* a step that changes the table is the last step of an operation
C25_WriteIsLast ==
  table' # table => \E c \in Clients : pc[c] \notin {"idle", "done"} /\ pc'[c] = "done"

\* C25: every operation writes to the table at most once and in its last
\* backend call: while a call is in progress the table is as the call found
\* it, a read operation returns with the table as it found it, and so does
\* every operation that returns an error.
C25_SingleLastWrite == []C25_Frame /\ [][C25_WriteIsLast]_vars

\* DeleteRow found children and refused; CreateChild-made rows are all there
C25_Witness ==
  \E c \in Clients :
    /\ Done(c, "DeleteRow") /\ ret[c].err = ErrCannotDeleteRow
    /\ ByTypeAndParent(pre[c], args[c].childType, args[c].id) # {}
    /\ Untouched(c)

\* the parent_id values of the rows of tbl whose id is in ids
ParentIDs(tbl, ids) ==
  {ParentOf(i) : i \in {j \in tbl : j.id.S \in ids /\ HasParent(j)}}

RECURSIVE AncestorIDs(_, _, _)
\* the ids met within n steps along parent_id links from the rows ids
AncestorIDs(tbl, ids, n) ==
  IF n = 0 THEN {}
  ELSE LET ps == ParentIDs(tbl, ids)
       IN ps \cup AncestorIDs(tbl, ps, n - 1)

\* no row of tbl is its own parent or ancestor
Forest(tbl) ==
  \A i \in tbl : i.id.S \notin AncestorIDs(tbl, {i.id.S}, Cardinality(tbl))

\* C26: the rows form a forest: following parent_id links from a row never
\* leads back to that row, in particular after an UpdateChild that succeeds.
C26_Forest ==
  /\ Forest(table)
  /\ \A c \in Clients :
       (Done(c, "UpdateChild") /\ ret[c].err = ErrNone /\ Forest(pre[c]))
       => Forest(table)

\* the row stored under (rowType, id) in tbl, without the named column
Others(tbl, rowType, id, name) ==
  {[label |-> i.label, parent |-> ParentOf(i),
    columns |-> LET m == StoredColumns(tbl, rowType, id)
                IN [n \in DOMAIN m \ {name} |-> m[n]]]
     : i \in Stored(tbl, rowType, id)}

\* C27: UpdateColumn with a string or a set of strings on a row that exists,
\* a root row made by CreateRow included, succeeds, stores the value under
\* columnName and leaves the other columns, the label and the parent_id of
\* the row as they were.
C27_UpdateColumnAnyRow ==
  \A c \in Clients :
    (/\ Done(c, "UpdateColumn")
     /\ Stored(pre[c], args[c].rowType, args[c].id) # {}
     /\ args[c].columnValue.kind \in {"string", "[]string"}
     /\ ~InvalidSet(ifaceToAttributeValue(args[c].columnValue)))
    => /\ ret[c].err = ErrNone
       /\ LET m == StoredColumns(table, args[c].rowType, args[c].id)
          IN /\ args[c].columnName \in DOMAIN m
             /\ Faithful(m[args[c].columnName], args[c].columnValue)
       /\ Others(table, args[c].rowType, args[c].id, args[c].columnName)
            = Others(pre[c], args[c].rowType, args[c].id, args[c].columnName)

====
